---- MODULE Spec2Model ----
(***************************************************************************)
(* Model of openquake/hazardlib/calc/hazard_curve.py: the aggregation of   *)
(* per-rupture exceedance probabilities into per-source, per-group and     *)
(* top-level probability fields.                                           *)
(*                                                                         *)
(* Probabilities are exact rationals <<n, d>> in lowest terms (d > 0), so  *)
(* "equal" below means exactly equal where the numpy code is equal within  *)
(* floating tolerance.  A curve is a function from the intensity levels    *)
(* to a probability; the code's third array axis (one column per gsim) is  *)
(* combined elementwise exactly like the level axis and is modelled with   *)
(* the single gsim that calc_hazard_curves passes.                         *)
(***************************************************************************)
EXTENDS Integers, Sequences, FiniteSets, TLC

VARIABLES op, arg, res

vars == <<op, arg, res>>

(***************************************************************************)
(* Bounds of the model.                                                    *)
(***************************************************************************)
NumSites == 2
NumLevels == 2
MaxRups == 2
MaxSrcs == 2
MaxGroups == 2

Sites == 0 .. (NumSites - 1)
Levels == 1 .. NumLevels

(***************************************************************************)
(* Exact rational arithmetic.                                              *)
(***************************************************************************)
RECURSIVE GCD(_, _)
GCD(a, b) == IF b = 0 THEN a ELSE GCD(b, a % b)

Abs(n) == IF n < 0 THEN 0 - n ELSE n

Q(n, d) ==
    LET g == GCD(Abs(n), d)
    IN  IF n = 0 THEN <<0, 1>> ELSE <<n \div g, d \div g>>

Zero == Q(0, 1)
One == Q(1, 1)
Half == Q(1, 2)

RAdd(x, y) == Q(x[1] * y[2] + y[1] * x[2], x[2] * y[2])
RSub(x, y) == Q(x[1] * y[2] - y[1] * x[2], x[2] * y[2])
RMul(x, y) == Q(x[1] * y[1], x[2] * y[2])
RLeq(x, y) == x[1] * y[2] <= y[1] * x[2]
InUnit(x) == RLeq(Zero, x) /\ RLeq(x, One)

RECURSIVE RSum(_)
RSum(ws) == IF ws = << >> THEN Zero ELSE RAdd(Head(ws), RSum(Tail(ws)))

(***************************************************************************)
(* Curves: the array of one site of a ProbabilityMap.                      *)
(***************************************************************************)
ConstCurve(x) == [l \in Levels |-> x]
CurveMul(a, b) == [l \in Levels |-> RMul(a[l], b[l])]
CurveAdd(a, b) == [l \in Levels |-> RAdd(a[l], b[l])]
CurveScale(a, w) == [l \in Levels |-> RMul(a[l], w)]
CurveInvert(a) == [l \in Levels |-> RSub(One, a[l])]
CurveOr(a, b) == CurveInvert(CurveMul(CurveInvert(a), CurveInvert(b)))
CurveInUnit(a) == \A l \in Levels : InUnit(a[l])

(***************************************************************************)
(* ProbabilityMap: a function from the site ids it holds to curves.        *)
(***************************************************************************)
EmptyMap == [s \in {} |-> ConstCurve(Zero)]

\* ProbabilityMap.build(L, G, sids, initvalue): True fills 1.0, False 0.0
PMBuild(sids, initvalue) ==
    [s \in sids |-> ConstCurve(IF initvalue THEN One ELSE Zero)]

\* ~pmap
PMInvert(pmap) == [s \in DOMAIN pmap |-> CurveInvert(pmap[s])]

\* pmap |= other: a site absent from one side keeps the other side's curve
PMIor(pmap, other) ==
    [s \in (DOMAIN pmap) \cup (DOMAIN other) |->
        IF s \notin DOMAIN other THEN pmap[s]
        ELSE IF s \notin DOMAIN pmap THEN other[s]
        ELSE CurveOr(pmap[s], other[s])]

\* pmap *= scalar
PMScale(pmap, x) == [s \in DOMAIN pmap |-> CurveScale(pmap[s], x)]

\* pmap.setdefault(sid, value): the map after the call
PMSetDefault(pmap, sid, value) ==
    IF sid \in DOMAIN pmap THEN pmap
    ELSE [s \in (DOMAIN pmap) \cup {sid} |->
            IF s = sid THEN ConstCurve(value) ELSE pmap[s]]

\* pcurve += other, pcurve being the curve stored at sid
PMIAdd(pmap, sid, other) == [pmap EXCEPT ![sid] = CurveAdd(@, other)]

\* pmap.convert(imtls, nsites): dense curves, zeros for the absent sites
PMConvert(pmap, nsites) ==
    [s \in 0 .. (nsites - 1) |->
        IF s \in DOMAIN pmap THEN pmap[s] ELSE ConstCurve(Zero)]

PMInUnit(pmap) == \A s \in DOMAIN pmap : CurveInUnit(pmap[s])

(***************************************************************************)
(* Exceptions and results.                                                 *)
(***************************************************************************)
NoneId == 0 - 1

Ok(value) == [status |-> "ok", etype |-> "", msg |-> "", source_id |-> NoneId,
              value |-> value]

Raise(etype, msg) == [status |-> "raised", etype |-> etype, msg |-> msg,
                      source_id |-> NoneId, value |-> << >>]

\* raise_(etype, '%s (source id=%s)' % (str(err), src.source_id), tb)
Reraise(exc, source_id) == [exc EXCEPT !.source_id = source_id]

(***************************************************************************)
(* Collaborators of poe_map.                                               *)
(***************************************************************************)
\* src.iter_ruptures()
iter_ruptures(src) == src.rups

\* src.count_ruptures()
count_ruptures(src) == Len(src.rups)

\* zip(a, b): stops at the shorter one
Zip(a, b) ==
    LET n == IF Len(a) <= Len(b) THEN Len(a) ELSE Len(b)
    IN  [i \in 1 .. n |-> <<a[i], b[i]>>]

\* cmaker.make_contexts(s_sites, rup): the sites within range of the
\* rupture, FarAwayRupture when there is none
make_contexts(s_sites, rup) ==
    LET sids == s_sites \cap rup.near
    IN  IF sids = {} THEN Raise("FarAwayRupture", "far")
        ELSE Ok(sids)

\* lines 100-109: gsim.get_poes for every imt, then
\* rupture.get_probability_no_exceedance(poes) = 1 - poes, for every site
\* of the context; a failure of the ground-motion model propagates
get_probability_no_exceedance(rup, sids) ==
    IF rup.fault # "" THEN Raise(rup.fault, "fault")
    ELSE Ok([s \in sids |-> CurveInvert(rup.poes)])

(***************************************************************************)
(* rupture_weight_pairs (lines 74-83): the pairs the generator yields, in  *)
(* order.  The first loop has no return after it, so a source with a       *)
(* `weights` attribute goes on to the uniform loop as well.                *)
(***************************************************************************)
NumRuptures(src) ==
    IF src.num_ruptures # 0 THEN src.num_ruptures ELSE count_ruptures(src)

UniformPairs(src) ==
    LET weight == Q(1, NumRuptures(src))
    IN  [i \in 1 .. Len(iter_ruptures(src)) |-> <<iter_ruptures(src)[i], weight>>]

rupture_weight_pairs(src) ==
    (IF src.has_weights THEN Zip(iter_ruptures(src), src.weights) ELSE << >>)
        \o UniformPairs(src)

(***************************************************************************)
(* poe_map (lines 112-145).                                                *)
(***************************************************************************)
\* lines 134-138: the update of the sites of the context
UpdateSites(pmap, sids, pnes, weight, rup_indep) ==
    [s \in DOMAIN pmap |->
        IF s \notin sids THEN pmap[s]
        ELSE IF rup_indep THEN CurveMul(pmap[s], pnes[s])
        ELSE CurveAdd(pmap[s], CurveScale(pnes[s], weight))]

\* lines 123-138: the loop over the pairs from position k on
RECURSIVE RuptureLoop(_, _, _, _, _, _)
RuptureLoop(pairs, k, s_sites, rup_indep, pmap, eff_ruptures) ==
    IF k > Len(pairs)
    THEN Ok([pmap |-> pmap, eff_ruptures |-> eff_ruptures])
    ELSE LET rup == pairs[k][1]
             weight == pairs[k][2]
             ctx == make_contexts(s_sites, rup)
             pnes == get_probability_no_exceedance(rup, ctx.value)
         IN  IF ctx.status = "raised" /\ ctx.etype = "FarAwayRupture"
             THEN RuptureLoop(pairs, k + 1, s_sites, rup_indep, pmap,
                              eff_ruptures)
             ELSE IF pnes.status = "raised" THEN pnes
             ELSE RuptureLoop(pairs, k + 1, s_sites, rup_indep,
                              UpdateSites(pmap, ctx.value, pnes.value, weight,
                                          rup_indep),
                              eff_ruptures + 1)

\* lines 143-145: the field is complemented whatever rup_indep is
Tilde(pmap, rup_indep) == PMInvert(pmap)

\* a variant of PoeMapEnd that lets the exception through as it came,
\* without the source id in its message
PoeMapEndAnonymous(src, rup_indep, loop) ==
    IF loop.status = "raised" THEN loop
    ELSE Ok([pmap |-> Tilde(loop.value.pmap, rup_indep),
             eff_ruptures |-> loop.value.eff_ruptures])

\* lines 139-145: what becomes of the outcome of the loop
PoeMapEnd(src, rup_indep, loop) ==
    IF loop.status = "raised" THEN Reraise(loop, src.source_id)
    ELSE Ok([pmap |-> Tilde(loop.value.pmap, rup_indep),
             eff_ruptures |-> loop.value.eff_ruptures])

poe_map(src, s_sites, rup_indep) ==
    PoeMapEnd(src, rup_indep,
              RuptureLoop(rupture_weight_pairs(src), 1, s_sites, rup_indep,
                          PMBuild(s_sites, rup_indep), 0))

(***************************************************************************)
(* The positional arguments of pmap_from_grp and pmap_from_trt are plain   *)
(* Python values: what the callee does with one depends on its type.       *)
(***************************************************************************)
PyDict(keys) == [type |-> "dict", keys |-> keys]
PyList == [type |-> "list", keys |-> {}]
PySourceFilter == [type |-> "SourceFilter", keys |-> {}]
PyMonitor == [type |-> "Monitor", keys |-> {}]

\* obj[key] for a string key: only a dict holding the key answers
GetItem(obj, key) ==
    IF obj.type # "dict" THEN Raise("TypeError", key)
    ELSE IF key \notin obj.keys THEN Raise("KeyError", key)
    ELSE Ok(key)

\* lines 162-167 and 202-207: param['imtls'], param.get('truncation_level'),
\* param['maximum_distance'], monitor(...); the first failure, if any
Prologue(gsims, param, monitor) ==
    IF GetItem(param, "imtls").status = "raised" THEN GetItem(param, "imtls")
    ELSE IF GetItem(param, "maximum_distance").status = "raised"
    THEN GetItem(param, "maximum_distance")
    ELSE IF monitor.type # "Monitor" THEN Raise("TypeError", "monitor")
    ELSE IF gsims.type # "list" THEN Raise("TypeError", "gsims")
    ELSE Ok(<< >>)

(***************************************************************************)
(* pmap_from_grp (lines 149-187).                                          *)
(***************************************************************************)
NoProb == << >>

\* lines 159-160: {src.source_id: weight}; for a repeated id the last wins
mutex_weight(group) ==
    LET pairs == Zip(group.sources, group.srcs_weights)
        ids == {pairs[i][1].source_id : i \in DOMAIN pairs}
        Last(id) == CHOOSE i \in DOMAIN pairs :
                        /\ pairs[i][1].source_id = id
                        /\ \A j \in DOMAIN pairs :
                              pairs[j][1].source_id = id => j <= i
    IN  [id \in ids |-> pairs[Last(id)][2]]

\* a variant of AddWeighted that forgets the weight of the source
RECURSIVE AddUnweighted(_, _, _, _)
AddUnweighted(pmap, poemap, sids, weight) ==
    IF sids = {} THEN pmap
    ELSE LET sid == CHOOSE s \in sids : TRUE
             withsid == PMSetDefault(pmap, sid, Zero)
         IN  AddUnweighted(PMIAdd(withsid, sid, poemap[sid]), poemap,
                           sids \ {sid}, weight)

\* lines 176-178, for the site ids in sids
RECURSIVE AddWeighted(_, _, _, _)
AddWeighted(pmap, poemap, sids, weight) ==
    IF sids = {} THEN pmap
    ELSE LET sid == CHOOSE s \in sids : TRUE
             withsid == PMSetDefault(pmap, sid, Zero)
         IN  AddWeighted(PMIAdd(withsid, sid, CurveScale(poemap[sid], weight)),
                         poemap, sids \ {sid}, weight)

\* lines 170-180: the loop over the sources from position k on
RECURSIVE GrpLoop(_, _, _, _)
RECURSIVE GrpFold(_, _, _, _, _)
GrpLoop(group, k, pmap, counts) ==
    IF k > Len(group.sources) THEN Ok([pmap |-> pmap, counts |-> counts])
    ELSE GrpFold(group, k, pmap, counts,
                 poe_map(group.sources[k], group.sources[k].sites,
                         group.rup_interdep = "indep"))

\* lines 175-178: the source's field added with the source's weight
GrpFold(group, k, pmap, counts, poemap) ==
    LET src == group.sources[k]
        weights == mutex_weight(group)
    IN  IF poemap.status = "raised" THEN poemap
        ELSE IF src.source_id \notin DOMAIN weights
        THEN Raise("KeyError", "mutex_weight")
        ELSE GrpLoop(group, k + 1,
                     AddWeighted(pmap, poemap.value.pmap,
                                 DOMAIN poemap.value.pmap,
                                 weights[src.source_id]),
                     counts + poemap.value.eff_ruptures)

\* lines 181-182
ApplyGrpProbability(pmap, grp_probability) ==
    IF grp_probability # NoProb THEN PMScale(pmap, grp_probability) ELSE pmap

\* the accumulator {group id: pmap} with its eff_ruptures
Acc(ids, pmap, eff_ruptures) ==
    [pmap |-> [g \in ids |-> pmap[g]],
     eff_ruptures |-> [g \in ids |-> eff_ruptures[g]]]

\* lines 181-187: what becomes of the outcome of the loop
GrpEnd(group, loop) ==
    IF loop.status = "raised" THEN loop
    ELSE Ok(Acc({group.id},
                [g \in {group.id} |->
                    ApplyGrpProbability(loop.value.pmap,
                                        group.grp_probability)],
                [g \in {group.id} |-> loop.value.counts]))

pmap_from_grp(group, gsims, param, monitor) ==
    IF Prologue(gsims, param, monitor).status = "raised"
    THEN Prologue(gsims, param, monitor)
    ELSE GrpEnd(group, GrpLoop(group, 1, EmptyMap, 0))

(***************************************************************************)
(* pmap_from_trt (lines 191-224).                                          *)
(***************************************************************************)
\* src.src_group_ids: the ids of the groups the source belongs to
src_group_ids(src) == {src.src_group_id}

\* lines 216-217 and 222-223 for one source
MergePoe(acc, ids, poe) ==
    [pmap |-> [g \in DOMAIN acc.pmap |->
                 IF g \in ids THEN PMIor(acc.pmap[g], poe.pmap)
                 ELSE acc.pmap[g]],
     eff_ruptures |->
        [g \in (DOMAIN acc.eff_ruptures) \cup ids |->
            (IF g \in DOMAIN acc.eff_ruptures THEN acc.eff_ruptures[g] ELSE 0)
            + (IF g \in ids THEN poe.eff_ruptures ELSE 0)]]

\* lines 212-223: the loop over the sources from position k on
RECURSIVE TrtLoop(_, _, _)
RECURSIVE TrtFold(_, _, _, _)
TrtLoop(sources, k, acc) ==
    IF k > Len(sources) THEN Ok(acc)
    ELSE TrtFold(sources, k, acc,
                 poe_map(sources[k], sources[k].sites, TRUE))

\* lines 216-223: the source's field OR-ed into its groups' fields
TrtFold(sources, k, acc, poe) ==
    IF poe.status = "raised" THEN poe
    ELSE IF ~(src_group_ids(sources[k]) \subseteq DOMAIN acc.pmap)
    THEN Raise("KeyError", "grp_id")
    ELSE TrtLoop(sources, k + 1,
                 MergePoe(acc, src_group_ids(sources[k]), poe.value))

pmap_from_trt(sources, gsims, param, monitor) ==
    LET grp_ids == {sources[i].src_group_id : i \in DOMAIN sources}
        pro == Prologue(gsims, param, monitor)
        acc0 == [pmap |-> [g \in grp_ids |-> EmptyMap],
                 eff_ruptures |-> [g \in {} |-> 0]]
    IN  IF pro.status = "raised" THEN pro
        ELSE TrtLoop(sources, 1, acc0)

(***************************************************************************)
(* calc_hazard_curves (lines 227-292).                                     *)
(***************************************************************************)
TRTs == <<"A", "B">>

\* SourceGroup(trt, sources, name, src_interdep, rup_interdep, ...)
SourceGroup(id, trt, sources, src_interdep, rup_interdep, grp_probability, srcs_weights) ==
    [id |-> id, trt |-> trt, sources |-> sources,
     src_interdep |-> src_interdep, rup_interdep |-> rup_interdep,
     grp_probability |-> grp_probability, srcs_weights |-> srcs_weights]

\* odic[trt]: the sources of that tectonic region type, in order
RECURSIVE SelectTrt(_, _)
SelectTrt(seq, trt) ==
    IF seq = << >> THEN << >>
    ELSE (IF Head(seq).tectonic_region_type = trt THEN <<Head(seq)>> ELSE << >>)
            \o SelectTrt(Tail(seq), trt)

\* lines 263-266: a flat list of sources becomes one indep/indep group per
\* tectonic region type, in the order of the types
RECURSIVE GroupByTrt(_, _)
GroupByTrt(sources, k) ==
    IF k > Len(TRTs) THEN << >>
    ELSE (IF SelectTrt(sources, TRTs[k]) = << >> THEN << >>
          ELSE <<SourceGroup(0, TRTs[k], SelectTrt(sources, TRTs[k]),
                             "indep", "indep", NoProb,
                             [i \in 1 .. Len(SelectTrt(sources, TRTs[k])) |-> One])>>)
            \o GroupByTrt(sources, k + 1)

Normalise(input) ==
    IF input.kind = "groups" THEN input.items ELSE GroupByTrt(input.items, 1)

\* lines 267-270: a source without a group id gets the index of its group
AssignGroupIds(groups) ==
    [i \in DOMAIN groups |->
        [groups[i] EXCEPT !.sources =
            [j \in DOMAIN @ |->
                IF @[j].src_group_id = NoneId
                THEN [@[j] EXCEPT !.src_group_id = i - 1] ELSE @[j]]]]

\* line 278: param = dict(imtls=imtls, truncation_level=truncation_level)
CalcParam == PyDict({"imtls", "truncation_level"})

\* the dispatch collaborator: the group's sources cut into blocks at the
\* positions in cuts, the blocks' results returned in order or reversed
RECURSIVE Blocks(_, _, _)
Blocks(sources, cuts, from) ==
    LET ends == {c \in cuts : from <= c /\ c < Len(sources)}
        to == IF ends = {} THEN Len(sources)
              ELSE CHOOSE c \in ends : \A d \in ends : c <= d
    IN  IF from > Len(sources) THEN << >>
        ELSE <<SubSeq(sources, from, to)>> \o Blocks(sources, cuts, to + 1)

Reverse(seq) == [i \in 1 .. Len(seq) |-> seq[Len(seq) + 1 - i]]

Units(sources, dispatch) ==
    IF dispatch.rev THEN Reverse(Blocks(sources, dispatch.cuts, 1))
    ELSE Blocks(sources, dispatch.cuts, 1)

\* lines 290-291: pmap |= res[grp_id] for the group ids in ids
RECURSIVE OrAll(_, _, _)
OrAll(pmap, resmap, ids) ==
    IF ids = {} THEN pmap
    ELSE LET g == CHOOSE x \in ids : TRUE
         IN  OrAll(PMIor(pmap, resmap[g]), resmap, ids \ {g})

Event(fn, group) == [fn |-> fn, group |-> group.id, trt |-> group.trt]

\* lines 289-291: a returned accumulator OR-ed into the top-level field;
\* a failure of the call ends the computation instead
Merge(pmap, log, ret) ==
    IF ret.status = "raised" THEN [out |-> ret, log |-> log]
    ELSE [out |-> Ok(OrAll(pmap, ret.value.pmap, DOMAIN ret.value.pmap)),
          log |-> log]

\* lines 286-291: the results of the units from position k on
RECURSIVE UnitLoop(_, _, _, _, _, _)
RECURSIVE UnitNext(_, _, _, _, _)
UnitLoop(group, units, k, ss_filter, pmap, log) ==
    IF k > Len(units) THEN [out |-> Ok(pmap), log |-> log]
    ELSE UnitNext(group, units, k, ss_filter,
                  Merge(pmap, Append(log, Event("pmap_from_trt", group)),
                        pmap_from_trt(units[k], ss_filter, PyList, CalcParam)))

UnitNext(group, units, k, ss_filter, step) ==
    IF step.out.status = "raised" THEN step
    ELSE UnitLoop(group, units, k + 1, ss_filter, step.out.value, step.log)

\* lines 283-291 for one group
GroupStep(group, ss_filter, dispatch, pmap, log) ==
    IF group.src_interdep = "mutex"
    THEN Merge(pmap, Append(log, Event("pmap_from_grp", group)),
               pmap_from_grp(group, ss_filter, PyList, CalcParam))
    ELSE UnitLoop(group, Units(group.sources, dispatch), 1, ss_filter, pmap,
                  Append(log, Event("apply", group)))

\* lines 282-291: the loop over the groups from position k on
RECURSIVE CalcLoop(_, _, _, _, _, _)
RECURSIVE CalcNext(_, _, _, _, _)
CalcLoop(groups, k, ss_filter, dispatch, pmap, log) ==
    IF k > Len(groups) THEN [out |-> Ok(pmap), log |-> log]
    ELSE CalcNext(groups, k, ss_filter, dispatch,
                  GroupStep(groups[k], ss_filter, dispatch, pmap, log))

CalcNext(groups, k, ss_filter, dispatch, step) ==
    IF step.out.status = "raised" THEN step
    ELSE CalcLoop(groups, k + 1, ss_filter, dispatch, step.out.value,
                  step.log)

\* line 281: gsim_by_trt[groups[0][0].tectonic_region_type]
LookupGsim(groups, gsim_by_trt) ==
    LET trt == groups[1].sources[1].tectonic_region_type
    IN  IF trt \in gsim_by_trt THEN Ok(trt) ELSE Raise("KeyError", trt)

\* line 292: pmap.convert(imtls, len(sitecol.complete))
CalcEnd(loop) ==
    IF loop.out.status = "raised" THEN loop
    ELSE [out |-> Ok(PMConvert(loop.out.value, NumSites)), log |-> loop.log]

\* lines 279-292, the groups being normalised
CalcBody(groups, gsim_by_trt, dispatch) ==
    IF LookupGsim(groups, gsim_by_trt).status = "raised"
    THEN [out |-> LookupGsim(groups, gsim_by_trt), log |-> << >>]
    ELSE CalcEnd(CalcLoop(groups, 1, PySourceFilter, dispatch, EmptyMap,
                          << >>))

calc_hazard_curves(input, gsim_by_trt, dispatch) ==
    CalcBody(AssignGroupIds(Normalise(input)), gsim_by_trt, dispatch)

(***************************************************************************)
(* Inputs: ruptures, sources.                                              *)
(***************************************************************************)
\* ground-motion output of a rupture: exceedance 1/2 up to level k and 0
\* above it, or exceedance 1 at every level
GmCurves ==
    {[l \in Levels |-> IF l <= k THEN Half ELSE Zero] : k \in 0 .. NumLevels}
        \cup {ConstCurve(One)}

\* the sites within range of a rupture: the k nearest ones
NearSets == {0 .. (k - 1) : k \in 0 .. NumSites}

\* the sites of a source after filtering: never empty
SiteSets == {0 .. (k - 1) : k \in 1 .. NumSites} \cup {{NumSites - 1}}

MkRup(near, poes, fault) == [near |-> near, poes |-> poes, fault |-> fault]

Ruptures ==
    {MkRup(n, c, "") : n \in NearSets \ {{}}, c \in GmCurves}
        \cup {MkRup({}, ConstCurve(Zero), "")}
        \cup {MkRup(Sites, ConstCurve(Half), f) : f \in {"ValueError", "KeyError"}}


\* configured weights of n mutually exclusive alternatives, summing to 1
Uniform(n) == [i \in 1 .. n |-> Q(1, n)]

RECURSIVE Pow(_, _)
Pow(x, n) == IF n = 0 THEN One ELSE RMul(x, Pow(x, n - 1))

Skewed(n) ==
    [i \in 1 .. n |->
        IF i < n THEN RMul(Q(3, 10), Pow(Q(7, 10), i - 1))
        ELSE Pow(Q(7, 10), n - 1)]

WeightVectors(n) == {Uniform(n), Skewed(n)}

MkSrc(sites, rups, has_weights, weights) ==
    [source_id |-> 1, tectonic_region_type |-> "A", src_group_id |-> 0,
     sites |-> sites, rups |-> rups, has_weights |-> has_weights,
     weights |-> weights, num_ruptures |-> 0]

\* a source either has no `weights` attribute or one weight per rupture
WeightOptions(n) ==
    {[has_weights |-> FALSE, weights |-> << >>]}
        \cup {[has_weights |-> TRUE, weights |-> w] : w \in WeightVectors(n)}

(***************************************************************************)
(* Inputs: groups.  The sources of a group carry distinct source ids.      *)
(***************************************************************************)
\* exceedance 1/2 at the first level only
StepCurve == [l \in Levels |-> IF l = 1 THEN Half ELSE Zero]

GrpRuptures ==
    {MkRup(Sites, ConstCurve(One), ""), MkRup(Sites, StepCurve, ""),
     MkRup({0}, ConstCurve(Half), ""), MkRup({}, ConstCurve(Zero), ""),
     MkRup(Sites, ConstCurve(Half), "ValueError")}

GrpSources ==
    {MkSrc(sites, <<r>>, FALSE, << >>) : sites \in {Sites, {0}}, r \in GrpRuptures}
        \cup {MkSrc(Sites, <<MkRup(Sites, ConstCurve(Half), ""),
                             MkRup({0}, ConstCurve(One), "")>>, TRUE, Skewed(2))}

\* the sources of group gid: ids by position, the group's type and id
Numbered(srcs, trt, gid) ==
    [i \in DOMAIN srcs |->
        [srcs[i] EXCEPT !.source_id = i, !.tectonic_region_type = trt,
                        !.src_group_id = gid]]

GrpProbabilities == {NoProb, Half, One}

SrcsWeights(n) == WeightVectors(n) \cup {[i \in 1 .. n |-> One]}

GoodParam == PyDict({"imtls", "truncation_level", "maximum_distance"})

Dispatches == [cuts : SUBSET (1 .. MaxSrcs), rev : BOOLEAN]

\* the work units the dispatch collaborator can make of a group's sources
WorkUnits(sources) ==
    UNION {{Units(sources, d)[k] : k \in 1 .. Len(Units(sources, d))} :
           d \in Dispatches}

\* the groups given to calc_hazard_curves: one source kind, every flag
CalcSource(trt) ==
    [MkSrc(Sites, <<MkRup(Sites, ConstCurve(Half), "")>>, FALSE, << >>)
        EXCEPT !.tectonic_region_type = trt, !.src_group_id = NoneId]

CalcGroups ==
    {SourceGroup(0, TRTs[t], [i \in 1 .. n |-> [CalcSource(TRTs[t]) EXCEPT !.source_id = i]],
                 si, "indep", NoProb, [i \in 1 .. n |-> One]) :
        t \in DOMAIN TRTs, n \in 1 .. MaxSrcs, si \in {"indep", "mutex"}}

\* a flat list of sources, of the types ts
FlatSources(ts) ==
    [i \in DOMAIN ts |-> [CalcSource(TRTs[ts[i]]) EXCEPT !.source_id = i]]

(***************************************************************************)
(* The operations, each applied to inputs drawn from the sets above.       *)
(***************************************************************************)
Init ==
    /\ op = "none"
    /\ arg = << >>
    /\ res = << >>

CallRuptureWeightPairs ==
    /\ op = "none"
    /\ \E sites \in SiteSets, n \in 1 .. MaxRups :
        \E rups \in [1 .. n -> Ruptures], wo \in WeightOptions(n),
           nr \in {0, n} :
            LET src == [MkSrc(sites, rups, wo.has_weights, wo.weights)
                            EXCEPT !.num_ruptures = nr]
            IN  /\ op' = "rupture_weight_pairs"
                /\ arg' = [src |-> src]
                /\ res' = rupture_weight_pairs(src)

CallPoeMap ==
    /\ op = "none"
    /\ \E sites \in SiteSets, n \in 1 .. MaxRups, rup_indep \in BOOLEAN :
        \E rups \in [1 .. n -> Ruptures], wo \in WeightOptions(n) :
            LET src == MkSrc(sites, rups, wo.has_weights, wo.weights)
            IN  /\ op' = "poe_map"
                /\ arg' = [src |-> src, rup_indep |-> rup_indep]
                /\ res' = poe_map(src, src.sites, rup_indep)

CallPmapFromGrp ==
    /\ op = "none"
    /\ \E n \in 1 .. MaxSrcs, ri \in {"indep", "mutex"},
          g \in GrpProbabilities :
        \E srcs \in [1 .. n -> GrpSources], w \in SrcsWeights(n) :
            LET group == SourceGroup(0, "A", Numbered(srcs, "A", 0), "mutex",
                                     ri, g, w)
            IN  /\ op' = "pmap_from_grp"
                /\ arg' = [group |-> group]
                /\ res' = pmap_from_grp(group, PyList, GoodParam, PyMonitor)

CallPmapFromTrt ==
    /\ op = "none"
    /\ \E n \in 1 .. MaxSrcs, ri \in {"indep", "mutex"},
          g \in GrpProbabilities :
        \E srcs \in [1 .. n -> GrpSources] :
            LET group == SourceGroup(0, "A", Numbered(srcs, "A", 0), "indep",
                                     ri, g, [i \in 1 .. n |-> One])
            IN  \E unit \in WorkUnits(group.sources) :
                    /\ op' = "pmap_from_trt"
                    /\ arg' = [group |-> group, sources |-> unit]
                    /\ res' = pmap_from_trt(unit, PyList, GoodParam,
                                            PyMonitor)

CallCalcHazardCurves ==
    /\ op = "none"
    /\ \E n \in 1 .. MaxGroups, flat \in BOOLEAN,
          gsim_by_trt \in SUBSET {TRTs[t] : t \in DOMAIN TRTs},
          dispatch \in Dispatches :
        \E gs \in [1 .. n -> CalcGroups], ts \in [1 .. n -> DOMAIN TRTs] :
            LET input == IF flat
                         THEN [kind |-> "sources", items |-> FlatSources(ts)]
                         ELSE [kind |-> "groups", items |-> gs]
            IN  /\ op' = "calc_hazard_curves"
                /\ arg' = [input |-> input, gsim_by_trt |-> gsim_by_trt,
                           dispatch |-> dispatch]
                /\ res' = calc_hazard_curves(input, gsim_by_trt, dispatch)

Next ==
    \/ CallRuptureWeightPairs
    \/ CallPoeMap
    \/ CallPmapFromGrp
    \/ CallPmapFromTrt
    \/ CallCalcHazardCurves

Spec == Init /\ [][Next]_vars

\* the aggregation functions alone
NextAgg ==
    \/ CallPoeMap
    \/ CallPmapFromGrp
    \/ CallPmapFromTrt

SpecAgg == Init /\ [][NextAgg]_vars

(***************************************************************************)
(* What the claims say, stated on the inputs alone.                        *)
(***************************************************************************)
\* rupture i of src is within range of some site of src
InRange(src, i) == src.sites \cap src.rups[i].near # {}

\* rupture i of src survives filtering and affects site s
Affects(src, i, s) == s \in src.sites \cap src.rups[i].near

\* the weight of rupture i: the configured one, else the uniform share
ClaimedWeight(src, i) ==
    IF src.has_weights THEN src.weights[i] ELSE Q(1, Len(src.rups))

\* sum over the first i ruptures affecting s of weight times exceedance
RECURSIVE WeightedPoeSum(_, _, _)
WeightedPoeSum(src, s, i) ==
    IF i = 0 THEN ConstCurve(Zero)
    ELSE CurveAdd(WeightedPoeSum(src, s, i - 1),
                  IF Affects(src, i, s)
                  THEN CurveScale(src.rups[i].poes, ClaimedWeight(src, i))
                  ELSE ConstCurve(Zero))

\* product over the first i ruptures affecting s of (1 - exceedance)
RECURSIVE PneProduct(_, _, _)
PneProduct(src, s, i) ==
    IF i = 0 THEN ConstCurve(One)
    ELSE CurveMul(PneProduct(src, s, i - 1),
                  IF Affects(src, i, s) THEN CurveInvert(src.rups[i].poes)
                  ELSE ConstCurve(One))

\* the same product over the first k sources
RECURSIVE PneProductAll(_, _, _)
PneProductAll(srcs, s, k) ==
    IF k = 0 THEN ConstCurve(One)
    ELSE CurveMul(PneProductAll(srcs, s, k - 1),
                  PneProduct(srcs[k], s, Len(srcs[k].rups)))

\* 1 - product of (1 - p) over every (source, rupture) pair affecting s
IndependentCurves(srcs) ==
    [s \in Sites |-> CurveInvert(PneProductAll(srcs, s, Len(srcs)))]

Faulty(src) == \E i \in DOMAIN src.rups : InRange(src, i) /\ src.rups[i].fault # ""

FirstFault(src) ==
    LET i == CHOOSE j \in DOMAIN src.rups :
                /\ InRange(src, j) /\ src.rups[j].fault # ""
                /\ \A h \in 1 .. (j - 1) :
                      ~(InRange(src, h) /\ src.rups[h].fault # "")
    IN  src.rups[i].fault

AnyFaulty(srcs) == \E k \in DOMAIN srcs : Faulty(srcs[k])

FirstFaulty(srcs) ==
    srcs[CHOOSE k \in DOMAIN srcs :
            Faulty(srcs[k]) /\ \A h \in 1 .. (k - 1) : ~Faulty(srcs[h])]

\* the field poe_map returns for source k of the group
SourcePoe(group, k) ==
    poe_map(group.sources[k], group.sources[k].sites,
            group.rup_interdep = "indep").value.pmap

\* sum over the first k sources holding s of weight times source exceedance
RECURSIVE GroupSum(_, _, _)
GroupSum(group, s, k) ==
    IF k = 0 THEN ConstCurve(Zero)
    ELSE CurveAdd(GroupSum(group, s, k - 1),
                  IF s \in group.sources[k].sites
                  THEN CurveScale(SourcePoe(group, k)[s], group.srcs_weights[k])
                  ELSE ConstCurve(Zero))

AllSites(srcs) == UNION {srcs[k].sites : k \in DOMAIN srcs}

MutexFolded(group) ==
    [s \in AllSites(group.sources) |-> GroupSum(group, s, Len(group.sources))]

\* OR over the first k sources holding s of the source exceedance
RECURSIVE SourceOr(_, _, _)
SourceOr(srcs, s, k) ==
    IF k = 0 THEN ConstCurve(Zero)
    ELSE CurveOr(SourceOr(srcs, s, k - 1),
                 IF s \in srcs[k].sites
                 THEN poe_map(srcs[k], srcs[k].sites, TRUE).value.pmap[s]
                 ELSE ConstCurve(Zero))

IndepFolded(srcs) == [s \in AllSites(srcs) |-> SourceOr(srcs, s, Len(srcs))]

Scaled(pmap, g) == IF g = NoProb THEN pmap ELSE PMScale(pmap, g)

WellFormedSource(src) == src.has_weights => RSum(src.weights) = One

WellFormedGroup(group) ==
    /\ RSum(group.srcs_weights) = One
    /\ group.grp_probability # NoProb => InUnit(group.grp_probability)
    /\ \A k \in DOMAIN group.sources : WellFormedSource(group.sources[k])

\* the normalised groups of a call of calc_hazard_curves
CalcGroupsOf(input) == AssignGroupIds(Normalise(input))

RECURSIVE Flatten(_)
Flatten(groups) ==
    IF groups = << >> THEN << >>
    ELSE Head(groups).sources \o Flatten(Tail(groups))

AllIndep(groups) ==
    \A i \in DOMAIN groups : groups[i].src_interdep = "indep"

AllResolved(groups, gsim_by_trt) ==
    \A i \in DOMAIN groups : groups[i].trt \in gsim_by_trt

SingleUnit == [cuts |-> {}, rev |-> FALSE]

(***************************************************************************)
(* The claims.                                                             *)
(***************************************************************************)
\* C1: for independent groups, whatever the partition of the sources into
\* work units and whatever the order of the unit results,
\* calc_hazard_curves produces a final field, the same one as with a
\* single unit holding all the sources.
C1_PartitionIndependent ==
    (/\ op = "calc_hazard_curves"
     /\ AllIndep(CalcGroupsOf(arg.input))
     /\ AllResolved(CalcGroupsOf(arg.input), arg.gsim_by_trt))
        => /\ res.out.status = "ok"
           /\ res.out.value =
                calc_hazard_curves(arg.input, arg.gsim_by_trt,
                                   SingleUnit).out.value

\* C2: for an independent group with independent ruptures and activation
\* probability 1 or absent, the final curve at every site of the complete
\* site collection is 1 minus the product of (1 - p) over the (source,
\* rupture) pairs affecting the site, 0 where no rupture does.
C2_IndependentProduct ==
    /\ (/\ op = "pmap_from_trt"
        /\ arg.sources = arg.group.sources
        /\ arg.group.rup_interdep = "indep"
        /\ arg.group.grp_probability \in {NoProb, One}
        /\ ~AnyFaulty(arg.sources))
         => /\ res.status = "ok"
            /\ PMConvert(res.value.pmap[arg.group.id], NumSites)
                 = IndependentCurves(arg.sources)
    /\ (/\ op = "calc_hazard_curves"
        /\ AllIndep(CalcGroupsOf(arg.input))
        /\ AllResolved(CalcGroupsOf(arg.input), arg.gsim_by_trt))
         => /\ res.out.status = "ok"
            /\ res.out.value
                 = IndependentCurves(Flatten(CalcGroupsOf(arg.input)))

\* C3: for a mutex group without activation probability, pmap_from_grp
\* returns at each site and level the sum over the group's sources of the
\* source's mutex weight times the source's exceedance probability there,
\* over the sites of the sources and starting from 0.
C3_MutexWeightedSum ==
    (/\ op = "pmap_from_grp"
     /\ arg.group.src_interdep = "mutex"
     /\ arg.group.grp_probability = NoProb
     /\ res.status = "ok")
        => res.value.pmap[arg.group.id] = MutexFolded(arg.group)

\* C3 happens: weights 0.3 and 0.7, both sources with exceedance 1 at site
\* 0, give 1 there.
C3_Witness ==
    /\ op = "pmap_from_grp"
    /\ res.status = "ok"
    /\ arg.group.grp_probability = NoProb
    /\ arg.group.srcs_weights = <<Q(3, 10), Q(7, 10)>>
    /\ \A k \in {1, 2} : 0 \in arg.group.sources[k].sites
                         /\ SourcePoe(arg.group, k)[0] = ConstCurve(One)
    /\ res.value.pmap[arg.group.id][0] = ConstCurve(One)

\* C4: when every rupture of a source is out of range poe_map raises
\* nothing, reports zero effective ruptures and returns exceedance 0 at
\* every site of the source, for independent and for mutex ruptures.
C4_AllOutOfRange ==
    (/\ op = "poe_map"
     /\ \A i \in DOMAIN arg.src.rups : ~InRange(arg.src, i))
        => /\ res.status = "ok"
           /\ res.value.eff_ruptures = 0
           /\ res.value.pmap = [s \in arg.src.sites |-> ConstCurve(Zero)]

\* C5: when a rupture within range fails with an exception, poe_map raises
\* an exception of the same kind carrying the source id, and pmap_from_grp
\* and pmap_from_trt raise it on and return no accumulator.
C5_FailureAborts ==
    /\ (op = "poe_map" /\ Faulty(arg.src))
         => /\ res.status = "raised"
            /\ res.etype = FirstFault(arg.src)
            /\ res.source_id = arg.src.source_id
            /\ res.value = << >>
    /\ (op = "pmap_from_grp" /\ AnyFaulty(arg.group.sources))
         => /\ res.status = "raised"
            /\ res.etype = FirstFault(FirstFaulty(arg.group.sources))
            /\ res.source_id = FirstFaulty(arg.group.sources).source_id
            /\ res.value = << >>
    /\ (op = "pmap_from_trt" /\ AnyFaulty(arg.sources))
         => /\ res.status = "raised"
            /\ res.etype = FirstFault(FirstFaulty(arg.sources))
            /\ res.source_id = FirstFaulty(arg.sources).source_id
            /\ res.value = << >>

\* C5 happens: the second source of a group fails after the first one was
\* folded, and the failure names the second source.
C5_Witness ==
    /\ op = "pmap_from_grp"
    /\ Len(arg.group.sources) = 2
    /\ ~Faulty(arg.group.sources[1])
    /\ Faulty(arg.group.sources[2])
    /\ res.status = "raised"
    /\ res.source_id = 2

\* C6: the field a group aggregation returns is the folded field times the
\* group's activation probability, in mutex and in independent mode, and
\* the folded field itself when the probability is absent.
C6_ActivationScaling ==
    /\ (op = "pmap_from_grp" /\ res.status = "ok")
         => res.value.pmap[arg.group.id]
              = Scaled(MutexFolded(arg.group), arg.group.grp_probability)
    /\ (op = "pmap_from_trt" /\ res.status = "ok"
            /\ arg.sources = arg.group.sources)
         => res.value.pmap[arg.group.id]
              = Scaled(IndepFolded(arg.sources), arg.group.grp_probability)

\* C7: on well-formed inputs every value of every field (per source, per
\* group, top level, dense output) lies in [0,1].
C7_UnitInterval ==
    /\ (op = "poe_map" /\ res.status = "ok" /\ WellFormedSource(arg.src))
         => PMInUnit(res.value.pmap)
    /\ (op = "pmap_from_grp" /\ res.status = "ok"
            /\ WellFormedGroup(arg.group))
         => PMInUnit(res.value.pmap[arg.group.id])
    /\ (op = "pmap_from_trt" /\ res.status = "ok"
            /\ \A k \in DOMAIN arg.sources : WellFormedSource(arg.sources[k]))
         => \A g \in DOMAIN res.value.pmap : PMInUnit(res.value.pmap[g])
    /\ (op = "calc_hazard_curves" /\ res.out.status = "ok")
         => PMInUnit(res.out.value)

\* C8: when some group, the first or a later one, has a tectonic region
\* type without entry in gsim_by_trt, calc_hazard_curves fails before any
\* call of pmap_from_grp and any dispatch.
C8_FailFast ==
    (/\ op = "calc_hazard_curves"
     /\ ~AllResolved(CalcGroupsOf(arg.input), arg.gsim_by_trt))
        => /\ res.out.status = "raised"
           /\ res.log = << >>

\* C9: for mutually exclusive ruptures poe_map returns, at each site and
\* level, the sum over the ruptures surviving filtering and affecting the
\* site of rupture weight times rupture exceedance probability.
C9_MutexRuptureSum ==
    (op = "poe_map" /\ ~arg.rup_indep /\ res.status = "ok")
        => res.value.pmap =
             [s \in arg.src.sites |->
                WeightedPoeSum(arg.src, s, Len(arg.src.rups))]

\* C10: rupture_weight_pairs yields exactly one pair per rupture, in
\* rupture order, with the configured weight or else the uniform weight
\* 1/n, the yielded weights summing to 1.
C10_OnePairPerRupture ==
    op = "rupture_weight_pairs"
        => /\ Len(res) = Len(arg.src.rups)
           /\ \A i \in DOMAIN res :
                 res[i] = <<arg.src.rups[i], ClaimedWeight(arg.src, i)>>
           /\ RSum([i \in DOMAIN res |-> res[i][2]]) = One

====
